---- MODULE Spec2Model ----
(***************************************************************************)
(* Model of actions/IA_scale.py: the SCALE action script that updates a   *)
(* CAM service instance with a new instance type and waits for the update *)
(* to finish.  One behaviour is one invocation of the script: the JSON    *)
(* document on stdin and the settings are fixed by Init, the answers of   *)
(* the remote services are chosen by the actions.                         *)
(***************************************************************************)
EXTENDS Integers, Sequences, FiniteSets, TLC

VARIABLES
    input,                    \* the JSON document read from stdin (line 162)
    update_service_timeout,   \* settings.ini [timeouts] update_service (line 55)
    pc,                       \* position in main
    scale_action,             \* line 169
    target_se,                \* line 181
    service_instance_id,      \* line 188
    service_instance_name,    \* line 189
    instance_type_parameter,  \* line 187
    new_instance_type,        \* line 214
    access_token,             \* line 218
    tenant_id,                \* line 222
    status_code,              \* line 228
    service_instance_status,  \* line 230
    time_waited,              \* line 234
    exit_status,              \* line 226
    raised,                   \* the uncaught exception that ended main, if any
    exit_code,                \* the exit status of the process (line 254)
    calls,                    \* the requests issued so far, with their HTTP status
    sleeps                    \* the time.sleep calls made so far

vars == << input, update_service_timeout, pc, scale_action, target_se,
           service_instance_id, service_instance_name, instance_type_parameter,
           new_instance_type, access_token, tenant_id, status_code,
           service_instance_status, time_waited, exit_status, raised,
           exit_code, calls, sleeps >>

-----------------------------------------------------------------------------
(* Bounds of the model *)

MaxItems == 2      \* longest actionItem list
MaxProps == 2      \* longest entityProperties list
MaxTimeout == 49   \* largest configured timeouts.update_service

-----------------------------------------------------------------------------
(* Values *)

None == "None"                \* Python's None, for string-valued variables
NoItem == [none |-> TRUE]     \* Python's None, for scale_action
NoCode == 0                   \* status_code before line 228 has run
NoExit == -1                  \* exit_status / exit_code while not yet set

IN_PROGRESS == "In Progress"
ACTIVE == "Active"

HTTP_OK == 200
HttpCodes == {200, 401, 500}
Statuses == {ACTIVE, IN_PROGRESS, "Failed"}

ActionTypes == {"SCALE", "MOVE"}
Namespaces == {"VCTAGS", "OTHER"}
TagNames == {"service_identifier", "service_name", "turbonomic_instance_type"}

SeqsUpTo(S, n) == UNION {[1..k -> S] : k \in 0..n}

\* The tags of a target: the three VCTAGS tags the script reads, and a
\* service_identifier in another namespace
EntityProperties ==
    [namespace : {"VCTAGS"}, name : TagNames, value : {"v"}]
    \cup [namespace : Namespaces \ {"VCTAGS"}, name : {"service_identifier"}, value : {"v"}]

\* newSE.id, given as its '::'-separated segments
NewSEIds == { <<"vm", "aws">>, <<"vm", "aws", "m1.large">> }

\* targetSE: with an entity type and a tag list, or without an entityType key
TargetSEs ==
    [entityType : {"VIRTUAL_MACHINE", "PHYSICAL_MACHINE"},
     entityProperties : SeqsUpTo(EntityProperties, MaxProps)]
    \cup {[entityType |-> None, entityProperties |-> <<>>]}

ScaleItems == [actionType : {"SCALE"}, targetSE : TargetSEs, newSE : [id : NewSEIds]]

OtherItem ==
    [actionType |-> "MOVE",
     targetSE |-> [entityType |-> "VIRTUAL_MACHINE", entityProperties |-> <<>>],
     newSE |-> [id |-> <<"vm", "aws", "m1.large">>]]

GoodScaleItem ==
    [actionType |-> "SCALE",
     targetSE |-> [entityType |-> "VIRTUAL_MACHINE",
                   entityProperties |->
                      << [namespace |-> "VCTAGS", name |-> "service_identifier", value |-> "v"] >>],
     newSE |-> [id |-> <<"vm", "aws", "m1.large">>]]

BadScaleItem ==
    [actionType |-> "SCALE",
     targetSE |-> [entityType |-> "PHYSICAL_MACHINE", entityProperties |-> <<>>],
     newSE |-> [id |-> <<"vm", "aws", "m1.large">>]]

\* Items that follow the first SCALE item of a list
TrailItems == {OtherItem, GoodScaleItem, BadScaleItem}

\* The actionItem lists: non-SCALE items, then possibly a SCALE item of any
\* shape, then possibly further items (SCALE or not).
ActionItemLists ==
    { items \in { pre \o mid \o post :
                    pre \in SeqsUpTo({OtherItem}, MaxItems),
                    mid \in {<<>>} \cup {<<s>> : s \in ScaleItems},
                    post \in SeqsUpTo(TrailItems, MaxItems - 1) } :
        Len(items) <= MaxItems }

Inputs == [actionType : ActionTypes, actionItem : ActionItemLists]

\* Configured timeouts: a negative one, and the values on both sides of every
\* 10-second step of the wait loop
Timeouts == {-10} \cup { t \in 20..MaxTimeout : t % 10 \in {0, 9} }

-----------------------------------------------------------------------------

Init ==
    /\ input \in Inputs
    /\ update_service_timeout \in Timeouts
    /\ pc = "action_type"
    /\ scale_action = NoItem
    /\ target_se = None
    /\ service_instance_id = None
    /\ service_instance_name = None
    /\ instance_type_parameter = None
    /\ new_instance_type = None
    /\ access_token = None
    /\ tenant_id = None
    /\ status_code = NoCode
    /\ service_instance_status = None
    /\ time_waited = 0
    /\ exit_status = NoExit
    /\ raised = None
    /\ exit_code = NoExit
    /\ calls = <<>>
    /\ sleeps = <<>>

-----------------------------------------------------------------------------
(* The functions of the script *)

\* get_access_token without the check of line 65
get_access_token_unchecked(code) == "token"

\* get_access_token, lines 65-70: the token of a 200 response, else None
get_access_token(code) == IF code = HTTP_OK THEN "token" ELSE None

\* get_tenant_id without the check of line 86
get_tenant_id_unchecked(token, code) == "tenant"

\* get_tenant_id, lines 82-91: the id of a 200 response, else None
get_tenant_id(token, code) ==
    IF token # None /\ code = HTTP_OK THEN "tenant" ELSE None

\* the status fetch without the check of line 131
get_service_instance_status_unchecked(token, tenant, code, status) == status

\* get_service_instance_details + get_service_instance_status, lines 126-155:
\* the Status field of a 200 response, else None
get_service_instance_status(token, tenant, code, status) ==
    IF token # None /\ tenant # None /\ code = HTTP_OK THEN status ELSE None

\* whether get_service_instance_details issues its request (line 128)
details_requested(token, tenant) == token # None /\ tenant # None

\* line 164 letting every action type through
supported_action_any(action_type) == TRUE

\* line 164: the only supported action type
supported_action(action_type) == action_type = "SCALE"

\* lines 171-174: the first item whose actionType is SCALE, or None
find_scale_action(items) ==
    LET idx == {i \in 1..Len(items) : items[i].actionType = "SCALE"}
    IN  IF idx = {} THEN NoItem
        ELSE items[CHOOSE i \in idx : \A j \in idx : i <= j]

\* lines 192-199 without the namespace test
is_tag_any_namespace(entity_property, name) == entity_property.name = name

\* lines 192-199: whether a property is the VCTAGS tag of the given name
is_tag(entity_property, name) ==
    entity_property.namespace = "VCTAGS" /\ entity_property.name = name

\* lines 187-202: the scan of the tag list; it stops once all three are found
RECURSIVE scan_properties(_, _, _)
scan_properties(props, i, acc) ==
    IF i > Len(props) THEN acc
    ELSE LET p == props[i]
             a == [id    |-> IF is_tag(p, "service_identifier") THEN p.value ELSE acc.id,
                   name  |-> IF is_tag(p, "service_name") THEN p.value ELSE acc.name,
                   param |-> IF is_tag(p, "turbonomic_instance_type") THEN p.value ELSE acc.param]
         IN  IF a.param # None /\ a.id # None /\ a.name # None
             THEN a
             ELSE scan_properties(props, i + 1, a)

\* line 235 without the status test
wait_condition_no_status(status, waited, timeout) == waited <= timeout

\* line 235 with the timeout test one step late
wait_condition_late(status, waited, timeout) ==
    status = IN_PROGRESS /\ waited <= timeout + 10

\* line 235: the condition of the wait loop
wait_condition(status, waited, timeout) ==
    status = IN_PROGRESS /\ waited <= timeout

\* line 229 accepting every status but a server error
update_accepted_lenient(code) == code < 500

\* line 229: whether the update was accepted
update_accepted(code) == code = HTTP_OK

\* lines 241-247 without the assignment of line 247
final_exit_status_always_ok(status) == 0

\* lines 241-247: the exit status set by the final status
final_exit_status(status) ==
    IF status = IN_PROGRESS THEN 0
    ELSE IF status = ACTIVE THEN 0
    ELSE 1

-----------------------------------------------------------------------------
(* How main ends *)

\* return(code) in main, then sys.exit(main(sys.argv)) at line 254
Return(code) ==
    /\ pc' = "done"
    /\ exit_code' = code
    /\ raised' = raised

\* an exception nobody catches: the interpreter exits with status 1
Raise(exception) ==
    /\ pc' = "done"
    /\ exit_code' = 1
    /\ raised' = exception

Continue(next) ==
    /\ pc' = next
    /\ UNCHANGED << exit_code, raised >>

\* one request as the remote answered it: the call site, the HTTP status and,
\* for a status fetch answered with 200, the Status field of the body
Request(site, code, status) == [site |-> site, code |-> code, status |-> status]

-----------------------------------------------------------------------------
(* The steps of main *)

\* lines 162-166
CheckActionType ==
    /\ pc = "action_type"
    /\ IF ~ supported_action(input.actionType) THEN Return(1) ELSE Continue("find_scale")
    /\ UNCHANGED << input, update_service_timeout, scale_action, target_se,
                    service_instance_id, service_instance_name,
                    instance_type_parameter, new_instance_type, access_token,
                    tenant_id, status_code, service_instance_status,
                    time_waited, exit_status, calls, sleeps >>

\* lines 168-178
FindScaleAction ==
    /\ pc = "find_scale"
    /\ scale_action' = find_scale_action(input.actionItem)
    /\ IF scale_action' = NoItem THEN Return(1) ELSE Continue("entity_type")
    /\ UNCHANGED << input, update_service_timeout, target_se,
                    service_instance_id, service_instance_name,
                    instance_type_parameter, new_instance_type, access_token,
                    tenant_id, status_code, service_instance_status,
                    time_waited, exit_status, calls, sleeps >>

\* lines 180-184; with no entity type, line 183 adds None to a string
CheckEntityType ==
    /\ pc = "entity_type"
    /\ target_se' = scale_action.targetSE.entityType
    /\ IF target_se' = "VIRTUAL_MACHINE" THEN Continue("tags")
       ELSE IF target_se' = None THEN Raise("TypeError")
       ELSE Return(1)
    /\ UNCHANGED << input, update_service_timeout, scale_action,
                    service_instance_id, service_instance_name,
                    instance_type_parameter, new_instance_type, access_token,
                    tenant_id, status_code, service_instance_status,
                    time_waited, exit_status, calls, sleeps >>

\* lines 186-206
ReadTags ==
    /\ pc = "tags"
    /\ LET found == scan_properties(scale_action.targetSE.entityProperties, 1,
                                    [id |-> None, name |-> None, param |-> None])
       IN  /\ service_instance_id' = found.id
           /\ service_instance_name' = found.name
           /\ instance_type_parameter' = found.param
    /\ IF service_instance_id' = None THEN Return(1) ELSE Continue("new_type")
    /\ UNCHANGED << input, update_service_timeout, scale_action, target_se,
                    new_instance_type, access_token,
                    tenant_id, status_code, service_instance_status,
                    time_waited, exit_status, calls, sleeps >>

\* lines 208-216; line 214 takes the third '::' segment of newSE.id
ReadNewInstanceType ==
    /\ pc = "new_type"
    /\ instance_type_parameter' =
          IF instance_type_parameter = None THEN "instance_type"
          ELSE instance_type_parameter
    /\ IF Len(scale_action.newSE.id) < 3
       THEN /\ Raise("IndexError")
            /\ UNCHANGED new_instance_type
       ELSE /\ Continue("authenticate")
            /\ new_instance_type' = scale_action.newSE.id[3]
    /\ UNCHANGED << input, update_service_timeout, scale_action, target_se,
                    service_instance_id, service_instance_name, access_token,
                    tenant_id, status_code, service_instance_status,
                    time_waited, exit_status, calls, sleeps >>

\* lines 218-220
Authenticate ==
    /\ pc = "authenticate"
    /\ \E code \in HttpCodes :
          /\ calls' = Append(calls, Request("authenticate", code, None))
          /\ access_token' = get_access_token(code)
    /\ IF access_token' = None THEN Return(1) ELSE Continue("tenant")
    /\ UNCHANGED << input, update_service_timeout, scale_action, target_se,
                    service_instance_id, service_instance_name,
                    instance_type_parameter, new_instance_type,
                    tenant_id, status_code, service_instance_status,
                    time_waited, exit_status, sleeps >>

\* lines 222-224
ResolveTenant ==
    /\ pc = "tenant"
    /\ \E code \in HttpCodes :
          /\ calls' = IF access_token # None
                      THEN Append(calls, Request("tenant", code, None))
                      ELSE calls
          /\ tenant_id' = get_tenant_id(access_token, code)
    /\ IF tenant_id' = None THEN Return(1) ELSE Continue("update")
    /\ UNCHANGED << input, update_service_timeout, scale_action, target_se,
                    service_instance_id, service_instance_name,
                    instance_type_parameter, new_instance_type, access_token,
                    status_code, service_instance_status,
                    time_waited, exit_status, sleeps >>

\* lines 226-229 and 248-251
UpdateServiceInstance ==
    /\ pc = "update"
    /\ \E code \in HttpCodes :
          /\ calls' = Append(calls, Request("update", code, None))
          /\ status_code' = code
    /\ IF update_accepted(status_code')
       THEN /\ exit_status' = 0
            /\ Continue("status")
       ELSE /\ exit_status' = 1
            /\ Return(1)
    /\ UNCHANGED << input, update_service_timeout, scale_action, target_se,
                    service_instance_id, service_instance_name,
                    instance_type_parameter, new_instance_type, access_token,
                    tenant_id, service_instance_status, time_waited, sleeps >>

\* lines 230-234: the first status fetch, then the unconditional 30 s sleep
FetchStatus ==
    /\ pc = "status"
    /\ \E code \in HttpCodes, status \in Statuses :
          /\ calls' = IF details_requested(access_token, tenant_id)
                      THEN Append(calls, Request("status", code,
                                  IF code = HTTP_OK THEN status ELSE None))
                      ELSE calls
          /\ service_instance_status' =
                get_service_instance_status(access_token, tenant_id, code, status)
    /\ sleeps' = Append(sleeps, 30)
    /\ time_waited' = 30
    /\ Continue("wait")
    /\ UNCHANGED << input, update_service_timeout, scale_action, target_se,
                    service_instance_id, service_instance_name,
                    instance_type_parameter, new_instance_type, access_token,
                    tenant_id, status_code, exit_status >>

\* lines 235-239: one iteration of the wait loop
WaitIteration ==
    /\ pc = "wait"
    /\ wait_condition(service_instance_status, time_waited, update_service_timeout)
    /\ sleeps' = Append(sleeps, 10)
    /\ time_waited' = time_waited + 10
    /\ \E code \in HttpCodes, status \in Statuses :
          /\ calls' = IF details_requested(access_token, tenant_id)
                      THEN Append(calls, Request("status", code,
                                  IF code = HTTP_OK THEN status ELSE None))
                      ELSE calls
          /\ service_instance_status' =
                get_service_instance_status(access_token, tenant_id, code, status)
    /\ Continue("wait")
    /\ UNCHANGED << input, update_service_timeout, scale_action, target_se,
                    service_instance_id, service_instance_name,
                    instance_type_parameter, new_instance_type, access_token,
                    tenant_id, status_code, exit_status >>

\* lines 241-251 and 254, once the wait loop has ended.  Line 242 reads the
\* name 'timeout', which is bound nowhere in the module: NameError.
Report ==
    /\ pc = "wait"
    /\ ~ wait_condition(service_instance_status, time_waited, update_service_timeout)
    /\ exit_status' = final_exit_status(service_instance_status)
    /\ IF service_instance_status = IN_PROGRESS
       THEN Raise("NameError")
       ELSE Return(exit_status')
    /\ UNCHANGED << input, update_service_timeout, scale_action, target_se,
                    service_instance_id, service_instance_name,
                    instance_type_parameter, new_instance_type, access_token,
                    tenant_id, status_code, service_instance_status,
                    time_waited, calls, sleeps >>

Next ==
    \/ CheckActionType
    \/ FindScaleAction
    \/ CheckEntityType
    \/ ReadTags
    \/ ReadNewInstanceType
    \/ Authenticate
    \/ ResolveTenant
    \/ UpdateServiceInstance
    \/ FetchStatus
    \/ WaitIteration
    \/ Report


Spec == Init /\ [][Next]_vars

\* The interpreter runs the script to its end: a step that can be taken is taken
FairSpec == Spec /\ WF_vars(Next)

-----------------------------------------------------------------------------
(* Vocabulary of the properties *)

Done == pc = "done"

Max(a, b) == IF a >= b THEN a ELSE b

CallIdx(site) == {i \in DOMAIN calls : calls[i].site = site}
CallsTo(site) == Cardinality(CallIdx(site))

\* the i-th request was answered with a status other than 200
CallFailed(i) == calls[i].code # HTTP_OK

\* the wait loop iterations run so far: the 10-second sleeps
Iterations == Cardinality({i \in DOMAIN sleeps : sleeps[i] = 10})

\* the positions of the first SCALE item of the input (none or one)
FirstScale ==
    {i \in DOMAIN input.actionItem :
        /\ input.actionItem[i].actionType = "SCALE"
        /\ \A j \in 1..(i - 1) : input.actionItem[j].actionType # "SCALE"}

HasIdTag(item) ==
    \E k \in DOMAIN item.targetSE.entityProperties :
        /\ item.targetSE.entityProperties[k].namespace = "VCTAGS"
        /\ item.targetSE.entityProperties[k].name = "service_identifier"

IsVirtualMachine(item) == item.targetSE.entityType = "VIRTUAL_MACHINE"

\* the update was accepted and the wait loop stopped on the timeout with the
\* service instance still in progress
TimedOutInProgress ==
    /\ Done
    /\ CallsTo("update") = 1
    /\ \A i \in CallIdx("update") : ~ CallFailed(i)
    /\ sleeps # <<>>
    /\ service_instance_status = IN_PROGRESS
    /\ time_waited > update_service_timeout

-----------------------------------------------------------------------------
(* The properties *)

\* C1: when the update returned 200 and the wait loop stopped on the timeout
\* with the status still "In Progress", the process ends with exit status 0.
C1_TimeoutKeepsExitZero ==
    TimedOutInProgress => exit_code = 0

\* C2: an input whose top-level actionType is not "SCALE" ends main at its
\* first check with exit status 1, and no request is ever issued.
C2_UnsupportedActionType ==
    input.actionType # "SCALE" =>
        /\ calls = <<>>
        /\ sleeps = <<>>
        /\ pc \in {"action_type", "done"}
        /\ Done => exit_code = 1

C2_Witness ==
    /\ Done
    /\ input.actionType = "MOVE"
    /\ input.actionItem = <<GoodScaleItem>>
    /\ exit_code = 1

\* C3: when the action type is SCALE and the first SCALE item is a virtual
\* machine without a VCTAGS service_identifier tag, the run ends with exit
\* status 1 before authentication: no request at all is issued.
C3_MissingServiceIdentifier ==
    ( /\ input.actionType = "SCALE"
      /\ \E i \in FirstScale :
            /\ IsVirtualMachine(input.actionItem[i])
            /\ ~ HasIdTag(input.actionItem[i]) )
    =>
        /\ calls = <<>>
        /\ pc \in {"action_type", "find_scale", "entity_type", "tags", "done"}
        /\ Done => exit_code = 1

C3_Witness ==
    /\ Done
    /\ exit_code = 1
    /\ input.actionType = "SCALE"
    /\ scale_action # NoItem
    /\ target_se = "VIRTUAL_MACHINE"
    /\ \E k \in DOMAIN scale_action.targetSE.entityProperties :
          /\ scale_action.targetSE.entityProperties[k].namespace = "OTHER"
          /\ scale_action.targetSE.entityProperties[k].name = "service_identifier"
    /\ ~ HasIdTag(scale_action)
    /\ Len(scale_action.newSE.id) = 3

\* C4: when the authenticate request is answered with a status other than 200,
\* it is the only request of the run and the exit status is 1.
C4_AuthenticationFailure ==
    (\E i \in CallIdx("authenticate") : CallFailed(i)) =>
        /\ Len(calls) = 1
        /\ CallsTo("tenant") = 0 /\ CallsTo("update") = 0 /\ CallsTo("status") = 0
        /\ Done
        /\ exit_code = 1

C4_Witness ==
    /\ Done
    /\ calls = << Request("authenticate", 401, None) >>
    /\ exit_code = 1

\* C5: when the update request is answered with a status other than 200, the
\* exit status is 1, no status fetch is issued and no sleep is taken.
C5_UpdateFailure ==
    (\E i \in CallIdx("update") : CallFailed(i)) =>
        /\ CallsTo("status") = 0
        /\ sleeps = <<>>
        /\ Done
        /\ exit_code = 1

C5_Witness ==
    /\ Done
    /\ Len(calls) = 3
    /\ calls[3] = Request("update", 401, None)
    /\ exit_code = 1

\* C6: when the first status fetch answers "Active", the run ends with exit
\* status 0 after one status fetch and the 30-second sleep alone, whatever
\* the configured timeout.
C6_ActiveAtOnce ==
    ( /\ Len(calls) >= 4
      /\ calls[4] = Request("status", HTTP_OK, ACTIVE) )
    =>
        /\ CallsTo("status") = 1
        /\ sleeps = <<30>>
        /\ Iterations = 0
        /\ pc \in {"wait", "done"}
        /\ Done => exit_code = 0

C6_Witness ==
    /\ Done
    /\ exit_code = 0
    /\ update_service_timeout >= 40
    /\ Len(calls) = 4
    /\ calls[4] = Request("status", HTTP_OK, ACTIVE)
    /\ sleeps = <<30>>

\* C7: a request answered with a status other than 200 is the last request
\* of the run and the run ends with exit status 1; a failed status fetch
\* leaves the status None; and a run that ends on a final status other than
\* "Active" and "In Progress" ends with exit status 1.
C7_RemoteFailure ==
    /\ \A i \in DOMAIN calls :
          CallFailed(i) =>
             /\ i = Len(calls)
             /\ calls[i].site = "status" => service_instance_status = None
             /\ Done => exit_code = 1
    /\ ( /\ Done
         /\ sleeps # <<>>
         /\ service_instance_status \notin {ACTIVE, IN_PROGRESS} )
       => exit_code = 1

C7_Witness ==
    /\ Done
    /\ exit_code = 1
    /\ CallsTo("status") >= 2
    /\ CallFailed(Len(calls))
    /\ calls[Len(calls) - 1] = Request("status", HTTP_OK, IN_PROGRESS)
    /\ time_waited <= update_service_timeout

\* C8: the requests of a run are authenticate, resolve tenant, submit update
\* and then status fetches, in this order and the first three at most once;
\* every request but the last was answered with 200, a status fetch is
\* repeated only after "In Progress", and the update is submitted with a
\* token and a tenant id.
C8_CallOrder ==
    /\ \A i \in DOMAIN calls :
          /\ calls[i].site = ( IF i = 1 THEN "authenticate"
                               ELSE IF i = 2 THEN "tenant"
                               ELSE IF i = 3 THEN "update"
                               ELSE "status" )
          /\ i < Len(calls) => ~ CallFailed(i)
          /\ (i < Len(calls) /\ i >= 4) => calls[i].status = IN_PROGRESS
    /\ Len(calls) >= 3 => (access_token # None /\ tenant_id # None)

C8_Witness ==
    /\ Done
    /\ Len(calls) >= 6
    /\ calls[Len(calls)].status = ACTIVE

\* C9: the wait loop terminates.  The accumulated wait is 30 after the first
\* sleep and grows by 10 per iteration; an iteration is entered only with the
\* status "In Progress" and the accumulated wait <= T; each iteration fetches
\* the status once; the loop runs at most max(0, floor((T-30)/10)+1) times
\* and not at all when T < 30; the accumulated wait never exceeds
\* max(30, T+10).
C9_WaitInvariant ==
    sleeps # <<>> =>
        /\ sleeps[1] = 30
        /\ \A i \in 2..Len(sleeps) : sleeps[i] = 10
        /\ time_waited = 30 + 10 * Iterations
        /\ CallsTo("status") = 1 + Iterations
        /\ Iterations <= Max(0, ((update_service_timeout - 30) \div 10) + 1)
        /\ update_service_timeout < 30 => Iterations = 0
        /\ time_waited <= Max(30, update_service_timeout + 10)
        /\ Iterations >= 1 =>
              /\ time_waited - 10 <= update_service_timeout
              /\ \A i \in CallIdx("status") :
                    i < Len(calls) => calls[i] = Request("status", HTTP_OK, IN_PROGRESS)

C9_WaitLoopTerminates ==
    /\ []C9_WaitInvariant
    /\ (pc = "wait") ~> Done

C9_Witness ==
    /\ Done
    /\ update_service_timeout = 49
    /\ Iterations = 2
    /\ time_waited = 50
    /\ service_instance_status = IN_PROGRESS

\* C10: a run that ends with exit status 0 had the top-level actionType SCALE,
\* a first SCALE item that is a virtual machine with a VCTAGS
\* service_identifier tag, 200 from authenticate, resolve tenant and update,
\* and a last fetched status "Active" or "In Progress"; every other run that
\* ends has exit status 1.
C10_ExitZeroOnlyOnSuccess ==
    Done =>
        /\ exit_code \in {0, 1}
        /\ exit_code = 0 =>
              /\ input.actionType = "SCALE"
              /\ FirstScale # {}
              /\ \A i \in FirstScale :
                    /\ IsVirtualMachine(input.actionItem[i])
                    /\ HasIdTag(input.actionItem[i])
              /\ Len(calls) >= 4
              /\ calls[1] = Request("authenticate", HTTP_OK, None)
              /\ calls[2] = Request("tenant", HTTP_OK, None)
              /\ calls[3] = Request("update", HTTP_OK, None)
              /\ calls[Len(calls)].site = "status"
              /\ calls[Len(calls)].code = HTTP_OK
              /\ calls[Len(calls)].status \in {ACTIVE, IN_PROGRESS}

C10_Witness ==
    /\ Done
    /\ exit_code = 0
    /\ Len(input.actionItem) = 2
    /\ FirstScale = {2}
    /\ Iterations >= 1
====
